---- MODULE Spec2Model ----
(***************************************************************************)
(* Brewing temperature monitor: the HTTP handlers of package handlers      *)
(* (PostData, GetAllData, GetDataFromDeviceByID, GetDataFromDeviceBy-      *)
(* Location), the Flux query builder and the result shapers, over an       *)
(* abstract InfluxDB bucket.                                               *)
(*                                                                         *)
(* The repository holds two texts of the handlers: src/unnamed/part_001    *)
(* (query built by buildAggregatedQuery, rows shaped by                    *)
(* executeAndProcessQuery) and the text that follows the compose file in   *)
(* src/docker-compose.yml (one switch with the three cases inlined).       *)
(* PostData, GetAllData and GetDataFromDeviceByLocation are the same in    *)
(* both; GetDataFromDeviceByID differs and is modelled twice.              *)
(*                                                                         *)
(* Strings the code splits are sequences: a key such as "mean_temperature" *)
(* is the sequence of its parts between underscores, <<"mean",             *)
(* "temperature">>, and "_time" is <<"", "time">>; the aggr parameter is a *)
(* sequence of symbols, each a comma or a comma-free word.                 *)
(***************************************************************************)
EXTENDS Integers, Sequences, FiniteSets, TLC

VARIABLES
    store,     \* the bucket: the set of points of measurement sensor_data
    h,         \* the RecordHandler: Org and Bucket (the client is the store)
    last,      \* the request handled last: its input, the store calls it made, its response
    pkg,       \* the package-level variables of package handlers
    inflight,  \* the requests being handled side by side, each with its handler's locals
    listening, \* router.Run accepts connections
    seeder     \* GenerateDummyData: its locals and its position

\* what the handlers served one after the other leave alone
others == <<pkg, inflight, listening, seeder>>

vars == <<store, h, last, pkg, inflight, listening, seeder>>

----------------------------------------------------------------------------
(* Bounds of the model *)

\* the records the seeder generates (the code generates 864)
MaxRecords == 2
\* the requests handled side by side
MaxInflight == 2
\* longest aggr parameter, in symbols (words and commas)
MaxAggrLen == 3
\* most points the bucket holds
MaxPoints == 2

----------------------------------------------------------------------------
(* Values *)

Num(n) == <<"num", n>>
Str(s) == <<"str", s>>
Time(t) == <<"time", t>>
Ratio(n, d) == <<"ratio", n, d>>
Nil == <<"nil">>

Comma == ","
AggrWords == {"mean", "max", "foo"}
AggrSymbols == AggrWords \cup {Comma}

DeviceIDs == {"", "sensor_123", "sensor_456"}
QueryDeviceIDs == {"", "sensor_123"}
Locations == {"", "Room 1"}
Temperatures == {0, 18, 21}
Humidities == {-1, 0, 100, 101}
\* timestampSampled, in days: 0 is Go's zero time.Time
Times == {0, 1, 2}
LastTime == CHOOSE t \in Times : \A u \in Times : u <= t

\* time.Now(): later than every sample
Now == LastTime + 1

RECURSIVE SumSeq(_)
SumSeq(s) == IF s = <<>> THEN 0 ELSE Head(s) + SumSeq(Tail(s))

Max2(a, b) == IF a >= b THEN a ELSE b
Min2(a, b) == IF a <= b THEN a ELSE b

RECURSIVE MaxSeq(_)
MaxSeq(s) == IF Len(s) = 1 THEN s[1] ELSE Max2(Head(s), MaxSeq(Tail(s)))

RECURSIVE MinSeq(_)
MinSeq(s) == IF Len(s) = 1 THEN s[1] ELSE Min2(Head(s), MinSeq(Tail(s)))

\* a map lookup values[key]: nil when the key is absent
Get(values, key) == IF key \in DOMAIN values THEN values[key] ELSE Nil

----------------------------------------------------------------------------
(* helpers and package-level data *)

supportedAggregations == <<"sum", "max", "mean", "min">>

IsInArray(element, array) == \E i \in 1..Len(array) : element = array[i]

RECURSIVE Split(_)
\* strings.Split(s, ","): the words between the commas, "" for an empty one
Split(s) ==
    LET commas == {i \in 1..Len(s) : s[i] = Comma}
        token(w) == IF w = <<>> THEN "" ELSE w[1]
    IN  IF commas = {}
        THEN <<token(s)>>
        ELSE LET i == CHOOSE j \in commas : \A k \in commas : j <= k
             IN  <<token(SubSeq(s, 1, i - 1))>> \o Split(SubSeq(s, i + 1, Len(s)))

\* strings.Split(key, "_")[0]
KeyPrefix(key) == key[1]

----------------------------------------------------------------------------
(* models.SensorData and its JSON binding *)

SensorData(deviceId, temperature, humidity, location, timestampSampled) ==
    [deviceId |-> deviceId, temperature |-> temperature, humidity |-> humidity,
     location |-> location, timestampSampled |-> timestampSampled]

ZeroSensorData == SensorData("", 0, 0, "", 0)

\* binding:"required" on a value field: the validator rejects the zero value of
\* the type ("" for string, 0 for float64, the zero time.Time)
RequiredFails(data) ==
    \/ data.deviceId = ""
    \/ data.temperature = 0
    \/ data.humidity = 0
    \/ data.location = ""
    \/ data.timestampSampled = 0

\* c.ShouldBindJSON(&data): body is <<>> for a body that is no JSON object of
\* the struct's shape, <<d>> for one that decodes to d (an absent member
\* decodes to the zero value)
ShouldBindJSON(body) ==
    IF body = <<>>
    THEN [err |-> TRUE, data |-> ZeroSensorData]
    ELSE [err |-> RequiredFails(body[1]), data |-> body[1]]

Bodies ==
    {<<>>} \cup
    {<<SensorData(d, t, hu, l, ts)>> :
        d \in DeviceIDs, t \in Temperatures, hu \in Humidities, l \in Locations, ts \in Times}

----------------------------------------------------------------------------
(* The bucket *)

\* as NewPoint, stamped with the time the request is received
NewPointReceivedNow(data) ==
    [measurement |-> "sensor_data", device_id |-> data.deviceId,
     temperature |-> data.temperature, humidity |-> data.humidity,
     location |-> data.location, time |-> Now]

\* NewPointWithMeasurement("sensor_data").AddTag(...).AddField(...).SetTime(...)
NewPoint(data) ==
    [measurement |-> "sensor_data", device_id |-> data.deviceId,
     temperature |-> data.temperature, humidity |-> data.humidity,
     location |-> data.location, time |-> data.timestampSampled]

SameSeries(p, q) ==
    p.measurement = q.measurement /\ p.device_id = q.device_id /\ p.time = q.time

\* WriteAPIBlocking.WritePoint: a point replaces the point of the same series
\* and time; a failed write leaves the bucket as it was
WritePoint(st, point, outcome) ==
    IF outcome = "ok"
    THEN {p \in st : ~SameSeries(p, point)} \cup {point}
    ELSE st

WriteOutcomes == {"ok", "err"}

----------------------------------------------------------------------------
(* QueryParams and its form binding *)

\* "-30d", the default Start: thirty days before now, in days
ThirtyDays == 30
\* "1d", the default AggFreq, in days
OneDay == 1

QueryParams(Start, Stop, Aggr, AggFreq) ==
    [Start |-> Start, Stop |-> Stop, Aggr |-> Aggr, AggFreq |-> AggFreq]

\* c.ShouldBindQuery(&params): a parameter the URL carries replaces the field,
\* an absent one (<<>>) leaves the default; every field is a string, so the
\* binding itself has no failing case
ShouldBindQuery(params, q) ==
    [err |-> FALSE,
     params |->
        [Start   |-> IF q.start = <<>> THEN params.Start ELSE q.start[1],
         Stop    |-> IF q.stop = <<>> THEN params.Stop ELSE q.stop[1],
         Aggr    |-> IF q.aggr = <<>> THEN params.Aggr ELSE q.aggr[1],
         AggFreq |-> IF q.aggFreq = <<>> THEN params.AggFreq ELSE q.aggFreq[1]]]

\* aggr parameters: words and commas, no two words adjacent
AggrStrings ==
    {s \in UNION {[1..n -> AggrSymbols] : n \in 0..MaxAggrLen} :
        \A i \in 1..(Len(s) - 1) : s[i] = Comma \/ s[i + 1] = Comma}

Opt(S) == {<<>>} \cup {<<x>> : x \in S}

\* the ranges asked for: the default one, one that starts at the last sample
\* time, one that stops at it
Ranges ==
    {r \in [start : Opt({LastTime}), stop : Opt({LastTime})] : r.start = <<>> \/ r.stop = <<>>}

\* the query strings of a device request
DeviceQueryStrings ==
    {[start |-> r.start, stop |-> r.stop, aggr |-> a, aggFreq |-> f] :
        r \in Ranges, a \in Opt(AggrStrings), f \in Opt({2})}

\* the query strings of the requests that read start and stop alone
RangeQueryStrings ==
    {[start |-> r.start, stop |-> r.stop, aggr |-> <<>>, aggFreq |-> <<>>] : r \in Ranges}

----------------------------------------------------------------------------
(* The Flux text, as a plan *)

DataName == <<"data">>
MetricFields == <<"temperature", "humidity">>

\* one aggregation of the text:
\*   name = data |> aggregateWindow(every, fn) |> set(key: "_aggregate", value: aggregate)
\*               |> map(_field: prefix_${_field})
\* out names the table that holds the renamed fields: name itself, or the
\* variable the map is assigned to when the text gives it one of its own
Stage(name, every, fn, aggregate, prefix, out) ==
    [name |-> name, every |-> every, fn |-> fn, aggregate |-> aggregate,
     prefix |-> prefix, out |-> out]

\* from(bucket) |> range(start, stop) |> filter(_measurement == "sensor_data"),
\* the filters on device_id and on _field, the stages, the tables piped into
\* pivot (through union when union is TRUE), and the filter on location that
\* follows the pivot
Plan(bucket, start, stop, device, fields, stages, tables, union, location) ==
    [bucket |-> bucket, start |-> start, stop |-> stop,
     measurement |-> "sensor_data", device |-> device, fields |-> fields,
     stages |-> stages, tables |-> tables, union |-> union, location |-> location]

----------------------------------------------------------------------------
(* The bucket's answer to a plan *)

FluxFunctions == {"sum", "max", "mean", "min"}
DeviceOrder == <<"sensor_123", "sensor_456">>

\* the stage whose renamed table is called name
StageOf(plan, name) ==
    plan.stages[CHOOSE i \in 1..Len(plan.stages) : plan.stages[i].out = name]

\* the text compiles: a non-empty range, no variable assigned twice (a stage
\* whose out is its name assigns one variable), every fn a function Flux
\* knows, every table piped into pivot assigned
PlanCompiles(plan) ==
    /\ plan.start < plan.stop
    /\ \A i, j \in 1..Len(plan.stages) :
          /\ plan.stages[i].name = plan.stages[j].name => i = j
          /\ plan.stages[i].out = plan.stages[j].out => i = j
          /\ plan.stages[i].name = plan.stages[j].out => i = j
    /\ \A i \in 1..Len(plan.stages) :
          /\ plan.stages[i].name # DataName
          /\ plan.stages[i].out # DataName
          /\ plan.stages[i].fn \in FluxFunctions
          /\ plan.stages[i].every > 0
    /\ \A i \in 1..Len(plan.tables) :
          \E j \in 1..Len(plan.stages) : plan.stages[j].out = plan.tables[i]
    /\ plan.union => Len(plan.tables) >= 2

\* the points the range and the filters on device_id keep
Selected(st, plan) ==
    {p \in st :
        /\ p.measurement = plan.measurement
        /\ plan.start <= p.time /\ p.time < plan.stop
        /\ plan.device # <<>> => p.device_id = plan.device[1]}

\* the elements of S by their rank, which tells them apart
SortBy(S, rank(_)) ==
    [i \in 1..Cardinality(S) |->
        CHOOSE x \in S : Cardinality({y \in S : rank(y) < rank(x)}) = i - 1]

DeviceIndex(device) == CHOOSE i \in 1..Len(DeviceOrder) : DeviceOrder[i] = device

\* the number of the table of a device: tables are numbered from 0, one a
\* device that has rows, in the order of DeviceOrder
TableOf(S, device) ==
    Cardinality({DeviceIndex(p.device_id) : p \in S} \cap 1..(DeviceIndex(device) - 1))

Aggregate(fn, vals) ==
    CASE fn = "sum" -> Num(SumSeq(vals))
      [] fn = "max" -> Num(MaxSeq(vals))
      [] fn = "min" -> Num(MinSeq(vals))
      [] fn = "mean" -> Ratio(SumSeq(vals), Len(vals))

\* the columns every pivoted row carries besides the pivoted fields
GroupColumns(plan, table, device, time) ==
    (<<"result">> :> Str("_result")) @@ (<<"table">> :> Num(table)) @@
    (<<"", "start">> :> Time(plan.start)) @@ (<<"", "stop">> :> Time(plan.stop)) @@
    (<<"", "time">> :> Time(time)) @@ (<<"", "measurement">> :> Str(plan.measurement)) @@
    (<<"device", "id">> :> Str(device))

\* pivot of the stored fields: one row a point
RawRow(plan, table, p) ==
    GroupColumns(plan, table, p.device_id, p.time) @@
    (<<"temperature">> :> Num(p.temperature)) @@ (<<"humidity">> :> Num(p.humidity)) @@
    (<<"location">> :> Str(p.location))

RawRowsOf(plan, S, pts) ==
    [i \in 1..Len(pts) |-> RawRow(plan, TableOf(S, pts[i].device_id), pts[i])]

\* the rows of a text without stages: by table, then by time
RawRows(plan, S) ==
    RawRowsOf(plan, S, SortBy(S, LAMBDA p : DeviceIndex(p.device_id) * (Now + 1) + p.time))

\* the start of the window of width every that holds time t
WindowOf(t, every) == (t \div every) * every

\* the columns a text with stages pivots: one a table and metric field
Columns(plan) == {<<i, m>> : i \in 1..Len(plan.tables), m \in 1..Len(MetricFields)}

\* the name of a column: prefix_field
ColumnKey(plan, c) == <<StageOf(plan, plan.tables[c[1]]).prefix, MetricFields[c[2]]>>

\* the values of a metric field in the points pts
FieldValues(pts, field) ==
    [k \in 1..Len(pts) |->
        IF field = "temperature" THEN pts[k].temperature ELSE pts[k].humidity]

\* the value of column c over the points of one window
ColumnValue(plan, c, pts) ==
    Aggregate(StageOf(plan, plan.tables[c[1]]).fn, FieldValues(pts, MetricFields[c[2]]))

\* the pivoted columns of one window; of two columns of one name the later
\* table's stands
WindowColumns(plan, cols, pts) ==
    [key \in {ColumnKey(plan, c) : c \in cols} |->
        ColumnValue(plan,
                    CHOOSE x \in cols :
                        /\ ColumnKey(plan, x) = key
                        /\ \A y \in cols : ColumnKey(plan, y) = key => y[1] <= x[1],
                    pts)]

\* one row a non-empty window ws[i] = <<device, start>>, stamped with the
\* window's stop
WindowRowsOf(plan, S, every, ws) ==
    [i \in 1..Len(ws) |->
        GroupColumns(plan, TableOf(S, ws[i][1]), ws[i][1], Min2(ws[i][2] + every, plan.stop))
        @@ WindowColumns(plan, Columns(plan),
                         SortBy({p \in S : p.device_id = ws[i][1]
                                           /\ WindowOf(p.time, every) = ws[i][2]},
                                LAMBDA p : p.time))]

\* the rows of a text with stages, whose window is every: by table, then by
\* window
WindowRowsEvery(plan, S, every) ==
    WindowRowsOf(plan, S, every,
                 SortBy({<<p.device_id, WindowOf(p.time, every)>> : p \in S},
                        LAMBDA w : DeviceIndex(w[1]) * (Now + 1) + w[2]))

WindowRows(plan, S) == WindowRowsEvery(plan, S, StageOf(plan, plan.tables[1]).every)

\* the filter on location, which reads the pivoted column
FilterLocation(plan, rows) ==
    IF plan.location = <<>> THEN rows
    ELSE SelectSeq(rows, LAMBDA r : Get(r, <<"location">>) = Str(plan.location[1]))

\* the rows of the answer
FluxRowsOf(plan, S) ==
    FilterLocation(plan, IF plan.tables = <<>> THEN RawRows(plan, S) ELSE WindowRows(plan, S))

FluxRows(st, plan) == FluxRowsOf(plan, Selected(st, plan))

\* queryAPI.Query(ctx, query): (nil, err) when the call fails, which it does
\* for a text that does not compile; otherwise a result whose rows are read
\* one by one and whose Err() tells a failure in the stream, after k rows
NilResult == [nil |-> TRUE, rows |-> <<>>, err |-> FALSE]

QueryOutcomes == {"ok", "callErr", "streamErr"}

\* the result of a call that did not fail: every row, or the k first and an
\* error in the stream
Result(rows, outcome, k) ==
    IF outcome = "ok"
    THEN [nil |-> FALSE, rows |-> rows, err |-> FALSE]
    ELSE [nil |-> FALSE, rows |-> SubSeq(rows, 1, Min2(k, Len(rows))), err |-> TRUE]

Query(st, plan, outcome, k) ==
    IF outcome = "callErr" \/ ~PlanCompiles(plan)
    THEN [result |-> NilResult, err |-> TRUE]
    ELSE [result |-> Result(FluxRows(st, plan), outcome, k), err |-> FALSE]

\* executeQuery of the switch text: the same call
executeQuery(hh, st, query, outcome, k) == Query(st, query, outcome, k)

----------------------------------------------------------------------------
(* The query texts *)

\* the text of GetAllData
AllDataQuery(hh, params) ==
    Plan(hh.Bucket, params.Start, params.Stop, <<>>, <<>>, <<>>, <<>>, FALSE, <<>>)

\* the text of GetDataFromDeviceByLocation
LocationQuery(hh, params, location) ==
    Plan(hh.Bucket, params.Start, params.Stop, <<>>, <<>>, <<>>, <<>>, FALSE, <<location>>)

\* the text of the device request without aggregation
DeviceQuery(hh, params, deviceId) ==
    Plan(hh.Bucket, params.Start, params.Stop, <<deviceId>>, <<>>, <<>>, <<>>, FALSE, <<>>)

\* %s_data = data |> aggregateWindow(every: %s, fn: %s, createEmpty: false)
\*     |> set(key: "_aggregate", value: "%s") |> map(... "%s_${r._field}")
AggregateStage(aggFunc, params) ==
    Stage(<<aggFunc, "data">>, params.AggFreq, aggFunc, aggFunc, aggFunc, <<aggFunc, "data">>)

\* strings.Join(aggrFunctions, "_data,") + "_data"
JoinData(aggrFunctions) == [i \in 1..Len(aggrFunctions) |-> <<aggrFunctions[i], "data">>]

\* as buildAggregatedQuery, with the strings.Builder kept between calls: the
\* text of the request before stays in it
buildAggregatedQueryKeepingBuilder(hh, deviceID, params) ==
    LET aggrFunctions == Split(params.Aggr)
        kept == IF last.plan = <<>> THEN <<>> ELSE last.plan[1].stages
        stages == [i \in 1..Len(aggrFunctions) |-> AggregateStage(aggrFunctions[i], params)]
    IN  Plan(hh.Bucket, params.Start, params.Stop, <<deviceID>>, MetricFields,
             kept \o stages, JoinData(aggrFunctions), Len(aggrFunctions) # 1, <<>>)

\* as buildAggregatedQuery, the loop over the functions starting at the second
buildAggregatedQuerySkippingFirst(hh, deviceID, params) ==
    LET aggrFunctions == Split(params.Aggr)
    IN  IF Len(aggrFunctions) = 1
        THEN Plan(hh.Bucket, params.Start, params.Stop, <<deviceID>>, MetricFields,
                  <<AggregateStage(aggrFunctions[1], params)>>,
                  <<<<aggrFunctions[1], "data">>>>, FALSE, <<>>)
        ELSE Plan(hh.Bucket, params.Start, params.Stop, <<deviceID>>, MetricFields,
                  [i \in 1..(Len(aggrFunctions) - 1) |->
                      AggregateStage(aggrFunctions[i + 1], params)],
                  JoinData(aggrFunctions), TRUE, <<>>)

buildAggregatedQuery(hh, deviceID, params) ==
    LET aggrFunctions == Split(params.Aggr)
    IN  IF Len(aggrFunctions) = 1
        THEN LET aggFunc == aggrFunctions[1]
             IN  Plan(hh.Bucket, params.Start, params.Stop, <<deviceID>>, MetricFields,
                      <<AggregateStage(aggFunc, params)>>, <<<<aggFunc, "data">>>>, FALSE, <<>>)
        ELSE Plan(hh.Bucket, params.Start, params.Stop, <<deviceID>>, MetricFields,
                  [i \in 1..Len(aggrFunctions) |-> AggregateStage(aggrFunctions[i], params)],
                  JoinData(aggrFunctions), TRUE, <<>>)

\* the text of the switch's case of one aggregation: %s_data aggregates,
\* renamed_data is %s_data with its fields renamed, and is pivoted
SingleAggregationQuery(hh, params, deviceId, aggFunc) ==
    Plan(hh.Bucket, params.Start, params.Stop, <<deviceId>>, MetricFields,
         <<Stage(<<aggFunc, "data">>, params.AggFreq, aggFunc, aggFunc, aggFunc,
                 <<"renamed", "data">>)>>,
         <<<<"renamed", "data">>>>, FALSE, <<>>)

\* the text of the switch's case of several aggregations
MultiAggregationQuery(hh, params, deviceId, aggrFunctions) ==
    Plan(hh.Bucket, params.Start, params.Stop, <<deviceId>>, MetricFields,
         [i \in 1..Len(aggrFunctions) |-> AggregateStage(aggrFunctions[i], params)],
         JoinData(aggrFunctions), TRUE, <<>>)

----------------------------------------------------------------------------
(* The records of a response *)

\* as RawRecord, leaving out the key of a column the row does not have
RawRecordOmitting(values) ==
    LET literal == <<<<<<"timestampSampled">>, <<"", "time">>>>,
                     <<<<"deviceId">>, <<"device", "id">>>>,
                     <<<<"temperature">>, <<"temperature">>>>,
                     <<<<"humidity">>, <<"humidity">>>>,
                     <<<<"location">>, <<"location">>>>>>
        present == {i \in 1..Len(literal) : literal[i][2] \in DOMAIN values}
    IN  [key \in {literal[i][1] : i \in present} |->
            values[literal[CHOOSE i \in present : literal[i][1] = key][2]]]

\* the map literal of the requests without aggregation
RawRecord(values) ==
    (<<"timestampSampled">> :> Get(values, <<"", "time">>)) @@
    (<<"deviceId">> :> Get(values, <<"device", "id">>)) @@
    (<<"temperature">> :> Get(values, <<"temperature">>)) @@
    (<<"humidity">> :> Get(values, <<"humidity">>)) @@
    (<<"location">> :> Get(values, <<"location">>))

\* the record of executeAndProcessQuery: timestamp, device_id, and the columns
\* whose text before the first underscore is a supported aggregation
ProcessedRecord(values) ==
    LET kept == {key \in DOMAIN values : IsInArray(KeyPrefix(key), supportedAggregations)}
    IN  [key \in {<<"timestamp">>, <<"device", "id">>} \cup kept |->
            IF key \in kept THEN values[key]
            ELSE IF key = <<"timestamp">> THEN Get(values, <<"", "time">>)
            ELSE Get(values, <<"device", "id">>)]

\* the map literal of the switch's case of one aggregation
SingleAggregationRecord(values, aggFunc) ==
    LET literal == <<<<<<"timestamp">>, Get(values, <<"", "time">>)>>,
                     <<<<"deviceId">>, Get(values, <<"device", "id">>)>>,
                     <<<<aggFunc, "temperature">>, Get(values, <<aggFunc, "temperature">>)>>,
                     <<<<aggFunc, "humidity">>, Get(values, <<aggFunc, "humidity">>)>>>>
    IN  [key \in {literal[i][1] : i \in 1..Len(literal)} |->
            literal[CHOOSE i \in 1..Len(literal) :
                      /\ literal[i][1] = key
                      /\ \A j \in 1..Len(literal) : literal[j][1] = key => j <= i][2]]

\* the record of the switch's case of several aggregations
MultiAggregationRecord(values, aggrFunctions) ==
    LET keys == {<<aggrFunctions[i], MetricFields[m]>> :
                    i \in 1..Len(aggrFunctions), m \in 1..Len(MetricFields)}
    IN  [key \in {<<"timestamp">>, <<"deviceId">>} \cup keys |->
            IF key \in keys THEN Get(values, key)
            ELSE IF key = <<"timestamp">> THEN Get(values, <<"", "time">>)
            ELSE Get(values, <<"device", "id">>)]

----------------------------------------------------------------------------
(* The handlers.  Each gives the response it writes (status 0: none), the    *)
(* calls it made on the store, and the store it leaves.                      *)

\* what a handler that wrote no response and called nothing has done
Done(st) ==
    [status |-> 0, error |-> "", data |-> <<>>, echo |-> <<>>, store |-> st,
     writes |-> <<>>, queries |-> <<>>, params |-> <<>>, plan |-> <<>>,
     read |-> 0, panicked |-> FALSE, responses |-> 0]

\* c.JSON(status, gin.H{"error": error})
ErrorJSON(d, status, error) ==
    [d EXCEPT !.status = status, !.error = error, !.responses = @ + 1]

\* c.JSON(http.StatusOK, gin.H{"data": records})
DataJSON(d, records) == [d EXCEPT !.status = 200, !.data = records, !.responses = @ + 1]

\* c.JSON(http.StatusOK, gin.H{"message": "Data stored successfully", "data": data})
StoredJSON(d, data) == [d EXCEPT !.status = 200, !.echo = <<data>>, !.responses = @ + 1]

\* gin.Default()'s Recovery: a handler that panics is answered 500, no body,
\* by the middleware; the handler has written nothing
Recovered(d) == [d EXCEPT !.status = 500, !.panicked = TRUE]

\* as HumidityOutOfRange, without the lower limit
HumidityAboveRange(data) == data.humidity > 100

HumidityOutOfRange(data) == data.humidity < 0 \/ data.humidity > 100

\* as StorePoint, writing a second time when the first write fails
StorePointAgain(st, point, outcome) ==
    IF outcome = "ok"
    THEN [store |-> WritePoint(st, point, "ok"), attempts |-> <<point>>, err |-> FALSE]
    ELSE [store |-> WritePoint(st, point, "ok"), attempts |-> <<point, point>>, err |-> FALSE]

\* writeAPI.WritePoint(context.Background(), point), called once
StorePoint(st, point, outcome) ==
    [store |-> WritePoint(st, point, outcome), attempts |-> <<point>>,
     err |-> outcome # "ok"]

PostData(hh, st, body, outcome) ==
    LET b == ShouldBindJSON(body)
        data == b.data
    IN  IF b.err
        THEN ErrorJSON(Done(st), 400, "Invalid input")
        ELSE IF HumidityOutOfRange(data)
        THEN ErrorJSON(Done(st), 400, "Humidity Must be in range [0.0, 100.00]")
        ELSE LET w == StorePoint(st, NewPoint(data), outcome)
                 d == [Done(w.store) EXCEPT !.writes = w.attempts]
             IN  IF w.err
                 THEN ErrorJSON(d, 500, "Failed to store data")
                 ELSE StoredJSON(d, data)

\* the loop over result.Next() with the map literal of the raw requests
RawRecords(rows) == [i \in 1..Len(rows) |-> RawRecord(rows[i])]

\* GetAllData and GetDataFromDeviceByLocation once the query call has
\* returned r: the call's error is looked at first, then the rows are read,
\* then result.Err()
RawResponse(d, r) ==
    IF r.err
    THEN ErrorJSON(d, 500, "Failed to retrieve data")
    ELSE IF r.result.err
    THEN ErrorJSON([d EXCEPT !.read = Len(r.result.rows)], 500, "Failed to process data")
    ELSE DataJSON([d EXCEPT !.read = Len(r.result.rows)], RawRecords(r.result.rows))

\* the query call of GetAllData and GetDataFromDeviceByLocation, and on
RawAnswer(d, st, query, outcome, k) ==
    RawResponse([d EXCEPT !.plan = <<query>>, !.queries = <<query>>],
                Query(st, query, outcome, k))

\* the QueryParams a handler starts from
DefaultParams == QueryParams(Now - ThirtyDays, Now, <<>>, OneDay)

\* GetAllData once the query is bound
GetAllDataBound(hh, st, b, outcome, k) ==
    IF b.err
    THEN ErrorJSON([Done(st) EXCEPT !.params = <<b.params>>], 400, "Invalid query parameters")
    ELSE RawAnswer([Done(st) EXCEPT !.params = <<b.params>>], st,
                   AllDataQuery(hh, b.params), outcome, k)

GetAllData(hh, st, q, outcome, k) ==
    GetAllDataBound(hh, st, ShouldBindQuery(DefaultParams, q), outcome, k)

\* GetDataFromDeviceByLocation once the query is bound
GetDataFromDeviceByLocationBound(hh, st, location, b, outcome, k) ==
    IF b.err
    THEN ErrorJSON([Done(st) EXCEPT !.params = <<b.params>>], 400, "Invalid query parameters")
    ELSE IF location = ""
    THEN ErrorJSON([Done(st) EXCEPT !.params = <<b.params>>], 400,
                   "location parameter is required")
    ELSE RawAnswer([Done(st) EXCEPT !.params = <<b.params>>], st,
                   LocationQuery(hh, b.params, location), outcome, k)

GetDataFromDeviceByLocation(hh, st, location, q, outcome, k) ==
    GetDataFromDeviceByLocationBound(hh, st, location, ShouldBindQuery(DefaultParams, q),
                                     outcome, k)

\* executeAndProcessQuery once the query call has returned r
ProcessResult(query, r) ==
    IF r.err
    THEN [records |-> <<>>, err |-> TRUE, calls |-> <<query>>, read |-> 0]
    ELSE IF r.result.err
    THEN [records |-> <<>>, err |-> TRUE, calls |-> <<query>>, read |-> Len(r.result.rows)]
    ELSE [records |-> [i \in 1..Len(r.result.rows) |-> ProcessedRecord(r.result.rows[i])],
          err |-> FALSE, calls |-> <<query>>, read |-> Len(r.result.rows)]

executeAndProcessQuery(hh, st, query, outcome, k) ==
    ProcessResult(query, Query(st, query, outcome, k))

\* GetDataFromDeviceByID of part_001 once executeAndProcessQuery has returned e
DeviceResponse(d, e) ==
    IF e.err
    THEN ErrorJSON([d EXCEPT !.queries = e.calls, !.read = e.read], 500,
                   "Failed to retrieve data")
    ELSE DataJSON([d EXCEPT !.queries = e.calls, !.read = e.read], e.records)

\* GetDataFromDeviceByID of part_001 once the query text is there
DeviceAnswer(d, hh, st, query, outcome, k) ==
    DeviceResponse([d EXCEPT !.plan = <<query>>],
                   executeAndProcessQuery(hh, st, query, outcome, k))

\* GetDataFromDeviceByID of part_001 once the query is bound
GetDataFromDeviceByIDBound(hh, st, deviceId, b, outcome, k) ==
    IF b.err
    THEN ErrorJSON([Done(st) EXCEPT !.params = <<b.params>>], 400, "Invalid query parameters")
    ELSE DeviceAnswer([Done(st) EXCEPT !.params = <<b.params>>], hh, st,
                      IF b.params.Aggr = <<>>
                      THEN DeviceQuery(hh, b.params, deviceId)
                      ELSE buildAggregatedQuery(hh, deviceId, b.params),
                      outcome, k)

\* GetDataFromDeviceByID of src/unnamed/part_001
GetDataFromDeviceByID(hh, st, deviceId, q, outcome, k) ==
    GetDataFromDeviceByIDBound(hh, st, deviceId, ShouldBindQuery(DefaultParams, q),
                               outcome, k)

\* the record a case of the switch makes of a row
SwitchRecord(values, aggrFunctions, case) ==
    IF case = "none" THEN RawRecord(values)
    ELSE IF case = "one" THEN SingleAggregationRecord(values, aggrFunctions[1])
    ELSE MultiAggregationRecord(values, aggrFunctions)

\* a case of the switch once executeQuery has returned r: the rows are read
\* first, and a nil result panics in result.Next(); the call's error and
\* result.Err() are looked at after the loop
SwitchResponse(d, r, aggrFunctions, case) ==
    IF r.result.nil
    THEN Recovered(d)
    ELSE IF r.err
    THEN ErrorJSON([d EXCEPT !.read = Len(r.result.rows)], 500, "Failed to retrieve data")
    ELSE IF r.result.err
    THEN ErrorJSON([d EXCEPT !.read = Len(r.result.rows)], 500, "Failed to process data")
    ELSE DataJSON([d EXCEPT !.read = Len(r.result.rows)],
                  [i \in 1..Len(r.result.rows) |->
                      SwitchRecord(r.result.rows[i], aggrFunctions, case)])

\* a case of the switch once its query text is there
SwitchCase(d, hh, st, query, outcome, k, aggrFunctions, case) ==
    SwitchResponse([d EXCEPT !.plan = <<query>>, !.queries = <<query>>],
                   executeQuery(hh, st, query, outcome, k), aggrFunctions, case)

\* the switch
Switch(d, hh, st, deviceId, params, aggrFunctions, outcome, k) ==
    IF params.Aggr = <<>>
    THEN SwitchCase(d, hh, st, DeviceQuery(hh, params, deviceId), outcome, k,
                    aggrFunctions, "none")
    ELSE IF params.Aggr # <<>> /\ Len(aggrFunctions) = 1
    THEN SwitchCase(d, hh, st, SingleAggregationQuery(hh, params, deviceId, aggrFunctions[1]),
                    outcome, k, aggrFunctions, "one")
    ELSE IF params.Aggr # <<>> /\ Len(aggrFunctions) > 1
    THEN SwitchCase(d, hh, st, MultiAggregationQuery(hh, params, deviceId, aggrFunctions),
                    outcome, k, aggrFunctions, "many")
    ELSE d

\* GetDataFromDeviceByID of the switch text once the query is bound
GetDataFromDeviceByIDSwitchBound(hh, st, deviceId, b, outcome, k) ==
    IF b.err
    THEN ErrorJSON([Done(st) EXCEPT !.params = <<b.params>>], 400, "Invalid query parameters")
    ELSE IF deviceId = ""
    THEN ErrorJSON([Done(st) EXCEPT !.params = <<b.params>>], 400,
                   "deviceId parameter is required")
    ELSE Switch([Done(st) EXCEPT !.params = <<b.params>>], hh, st, deviceId, b.params,
                Split(b.params.Aggr), outcome, k)

\* GetDataFromDeviceByID of the text in src/docker-compose.yml
GetDataFromDeviceByIDSwitch(hh, st, deviceId, q, outcome, k) ==
    GetDataFromDeviceByIDSwitchBound(hh, st, deviceId, ShouldBindQuery(DefaultParams, q),
                                     outcome, k)

----------------------------------------------------------------------------
(* The server: RegisterRoutes hands each request to its handler *)

NewRecordHandler(org, bucket) == [Org |-> org, Bucket |-> bucket]

\* var supportedAggregations = []string{...}
Package == [supportedAggregations |-> supportedAggregations]

\* no request is being handled beside the one last tells of
NoneInflight == <<>>

\* GenerateDummyData before it starts
NoSeeder ==
    [pc |-> "off", data |-> <<>>, idx |-> 0, posted |-> <<>>, reported |-> 0, deferred |-> 0]

\* the server up, its requests handled one after the other; the seeder is one
\* of its clients and its readings are among Bodies
ServerUp ==
    /\ pkg = Package
    /\ inflight = NoneInflight
    /\ listening = TRUE
    /\ seeder = NoSeeder

NoRequest ==
    [op |-> "none", src |-> "", body |-> <<>>, scope |-> "", q |-> <<>>,
     outcome |-> "", before |-> {}, rebuilt |-> FALSE, prevPlan |-> <<>>,
     status |-> 0, error |-> "", data |-> <<>>, echo |-> <<>>,
     writes |-> <<>>, queries |-> <<>>, params |-> <<>>, plan |-> <<>>,
     read |-> 0, panicked |-> FALSE, responses |-> 0]

\* the request and what its handler did, as last keeps it
Handled(op, src, body, scope, q, outcome, d) ==
    LET rebuilt == /\ last.op = op /\ last.src = src /\ last.scope = scope
                   /\ last.params = d.params
                   /\ last.plan # <<>> /\ d.plan # <<>>
    IN  [op |-> op, src |-> src, body |-> body, scope |-> scope, q |-> q,
         outcome |-> IF d.writes = <<>> /\ d.queries = <<>> THEN ""
                     ELSE IF d.queries # <<>> /\ ~PlanCompiles(d.queries[1]) THEN "callErr"
                     ELSE outcome,
         before |-> store, rebuilt |-> rebuilt,
         prevPlan |-> IF rebuilt THEN last.plan ELSE <<>>,
         status |-> d.status, error |-> d.error, data |-> d.data, echo |-> d.echo,
         writes |-> d.writes, queries |-> d.queries, params |-> d.params,
         plan |-> d.plan, read |-> d.read, panicked |-> d.panicked,
         responses |-> d.responses]

Init ==
    /\ store = {}
    /\ h = NewRecordHandler("org", "bucket")
    /\ ServerUp
    /\ last = NoRequest

ServePostData ==
    \E body \in Bodies, outcome \in WriteOutcomes :
        \E d \in {PostData(h, store, body, outcome)} :
            /\ Cardinality(d.store) <= MaxPoints
            /\ store' = d.store
            /\ last' = Handled("PostData", "part_001", <<body>>, "", <<>>, outcome, d)
            /\ UNCHANGED <<h, others>>

ServeGetAllData ==
    \E q \in RangeQueryStrings, outcome \in QueryOutcomes, k \in 0..MaxPoints :
        /\ outcome = "streamErr" \/ k = 0
        /\ \E d \in {GetAllData(h, store, q, outcome, k)} :
            /\ store' = d.store
            /\ last' = Handled("GetAllData", "part_001", <<>>, "", <<q>>, outcome, d)
            /\ UNCHANGED <<h, others>>

ServeGetDataFromDeviceByID ==
    \E deviceId \in QueryDeviceIDs, q \in DeviceQueryStrings,
       outcome \in QueryOutcomes, k \in 0..MaxPoints :
        /\ outcome = "streamErr" \/ k = 0
        /\ \E d \in {GetDataFromDeviceByID(h, store, deviceId, q, outcome, k)} :
            /\ store' = d.store
            /\ last' = Handled("GetDataFromDeviceByID", "part_001", <<>>, deviceId,
                               <<q>>, outcome, d)
            /\ UNCHANGED <<h, others>>

ServeGetDataFromDeviceByIDSwitch ==
    \E deviceId \in QueryDeviceIDs, q \in DeviceQueryStrings,
       outcome \in QueryOutcomes, k \in 0..MaxPoints :
        /\ outcome = "streamErr" \/ k = 0
        /\ \E d \in {GetDataFromDeviceByIDSwitch(h, store, deviceId, q, outcome, k)} :
            /\ store' = d.store
            /\ last' = Handled("GetDataFromDeviceByID", "docker-compose.yml", <<>>,
                               deviceId, <<q>>, outcome, d)
            /\ UNCHANGED <<h, others>>

ServeGetDataFromDeviceByLocation ==
    \E location \in Locations, q \in RangeQueryStrings,
       outcome \in QueryOutcomes, k \in 0..MaxPoints :
        /\ outcome = "streamErr" \/ k = 0
        /\ \E d \in {GetDataFromDeviceByLocation(h, store, location, q, outcome, k)} :
            /\ store' = d.store
            /\ last' = Handled("GetDataFromDeviceByLocation", "part_001", <<>>, location,
                               <<q>>, outcome, d)
            /\ UNCHANGED <<h, others>>

\* the response is out and the server takes the next request
Release ==
    /\ last.op # "none"
    /\ last' = NoRequest
    /\ UNCHANGED <<store, h, others>>

Idle == last.op = "none"

Next ==
    \/ Idle /\ ServePostData
    \/ Idle /\ ServeGetAllData
    \/ Idle /\ ServeGetDataFromDeviceByID
    \/ Idle /\ ServeGetDataFromDeviceByIDSwitch
    \/ Idle /\ ServeGetDataFromDeviceByLocation
    \/ Release

Spec == Init /\ [][Next]_vars

----------------------------------------------------------------------------
(* The same device request, sent again and again *)

InitRebuild ==
    /\ store = {}
    /\ h = NewRecordHandler("org", "bucket")
    /\ ServerUp
    /\ \E deviceId \in QueryDeviceIDs, q \in DeviceQueryStrings :
          last = [NoRequest EXCEPT !.op = "GetDataFromDeviceByID", !.src = "part_001",
                                   !.scope = deviceId, !.q = <<q>>]

ServeSameRequestAgain ==
    /\ last.op = "GetDataFromDeviceByID"
    /\ last.src = "part_001"
    /\ \E outcome \in QueryOutcomes :
          \E d \in {GetDataFromDeviceByID(h, store, last.scope, last.q[1], outcome, 0)} :
              /\ store' = d.store
              /\ last' = Handled(last.op, last.src, <<>>, last.scope, last.q, outcome, d)
              /\ UNCHANGED <<h, others>>

NextRebuild == ServeSameRequestAgain

SpecRebuild == InitRebuild /\ [][NextRebuild]_vars

----------------------------------------------------------------------------
(* The map literal of the raw requests, applied to the rows a result can    *)
(* hold: a column may be missing from a row, or be there with no value      *)

\* the columns the literal reads, and a value of each
RowColumns ==
    {<<"", "time">>, <<"device", "id">>, <<"temperature">>, <<"humidity">>, <<"location">>}

ColumnSample(key) ==
    CASE key = <<"", "time">> -> Time(LastTime)
      [] key = <<"device", "id">> -> Str("sensor_123")
      [] key = <<"temperature">> -> Num(18)
      [] key = <<"humidity">> -> Num(100)
      [] key = <<"location">> -> Str("Room 1")

\* result.Record().Values()
RowValues ==
    {[key \in {c \in RowColumns : has[c] # "absent"} |->
        IF has[key] = "nil" THEN Nil ELSE ColumnSample(key)] :
     has \in [RowColumns -> {"absent", "nil", "value"}]}

InitShape ==
    /\ store = {}
    /\ h = NewRecordHandler("org", "bucket")
    /\ ServerUp
    /\ \E values \in RowValues : last = [NoRequest EXCEPT !.op = "row", !.body = <<values>>]

\* one turn of the loop over result.Next()
ShapeRow ==
    /\ last.op = "row"
    /\ last' = [last EXCEPT !.op = "RawRecord", !.data = <<RawRecord(last.body[1])>>]
    /\ UNCHANGED <<store, h, others>>

NextShape == ShapeRow

SpecShape == InitShape /\ [][NextShape]_vars

----------------------------------------------------------------------------
(* main: the server goroutine and the seeder goroutine, started together    *)

\* 0.0 + rand.Float64()*(100.0-0.0) and 14 + rand.Float64()*(21-14)
SeedHumidities == {0, 50}
SeedTemperatures == {14, 18}

\* the record of the generation loops, the idx-th: its timestamp follows idx
SeedRecord(idx, humidity, temperature) ==
    SensorData("sensor_123", temperature, humidity, "Room 1", idx)

InitSeeder ==
    /\ store = {}
    /\ h = NewRecordHandler("org", "bucket")
    /\ last = NoRequest
    /\ pkg = Package
    /\ inflight = NoneInflight
    /\ listening = FALSE
    /\ seeder = [NoSeeder EXCEPT !.pc = "generate"]

\* go func() { router.Run(":8080") }(): the port is bound
Listen ==
    /\ ~listening
    /\ listening' = TRUE
    /\ UNCHANGED <<store, h, last, pkg, inflight, seeder>>

\* data = append(data, record), and the forward loop once the last is appended
GenerateRecord ==
    /\ seeder.pc = "generate"
    /\ \E humidity \in SeedHumidities, temperature \in SeedTemperatures :
          \E data \in {Append(seeder.data,
                              SeedRecord(Len(seeder.data) + 1, humidity, temperature))} :
              seeder' = [seeder EXCEPT !.data = data,
                                       !.pc = IF Len(data) = MaxRecords THEN "forward"
                                              ELSE "generate",
                                       !.idx = IF Len(data) = MaxRecords THEN 1 ELSE 0]
    /\ UNCHANGED <<store, h, last, pkg, inflight, listening>>

\* the seeder once the turn idx of the forward loop is over
NextRecord(sd) ==
    [sd EXCEPT !.idx = @ + 1, !.pc = IF sd.idx = Len(sd.data) THEN "done" ELSE "forward"]

\* a turn of the forward loop whose http.Post reaches the server: PostData
\* handles the record, err is nil and resp.Body.Close is deferred
PostRecord ==
    /\ seeder.pc = "forward"
    /\ listening
    /\ \E outcome \in WriteOutcomes :
          \E d \in {PostData(h, store, <<seeder.data[seeder.idx]>>, outcome)} :
              /\ store' = d.store
              /\ last' = Handled("PostData", "part_001", <<<<seeder.data[seeder.idx]>>>>,
                                 "", <<>>, outcome, d)
    /\ seeder' = NextRecord([seeder EXCEPT !.posted = Append(@, seeder.data[seeder.idx]),
                                           !.deferred = @ + 1])
    /\ UNCHANGED <<h, pkg, inflight, listening>>

\* a turn of the forward loop whose http.Post finds no server: resp is nil,
\* err is printed, and defer resp.Body.Close() reads resp.Body of the nil
\* response: the goroutine panics and the process is over
PostRecordRefused ==
    /\ seeder.pc = "forward"
    /\ ~listening
    /\ seeder' = [seeder EXCEPT !.posted = Append(@, seeder.data[seeder.idx]),
                                !.reported = @ + 1,
                                !.pc = "panicked"]
    /\ UNCHANGED <<store, h, last, pkg, inflight, listening>>

NextSeeder ==
    \/ Listen
    \/ GenerateRecord
    \/ PostRecord
    \/ PostRecordRefused

SpecSeeder == InitSeeder /\ [][NextSeeder]_vars

----------------------------------------------------------------------------
(* Requests handled side by side: gin runs each handler in the goroutine of *)
(* its connection.  A handler is three steps: up to its store call, the     *)
(* store call, and from the store call to its response.  Its locals (data,  *)
(* params, query, point, result) are in inflight; h and pkg are shared.     *)

Slots == 1..MaxInflight

\* the locals of a handler that has not been called
NotHandling ==
    [pc |-> "idle", op |-> "none", body |-> <<>>, scope |-> "", q |-> <<>>,
     outcome |-> "", d |-> Done({}), point |-> <<>>, werr |-> FALSE, r |-> <<>>,
     seen |-> {}]

\* the requests sent side by side
ConcurrentBodies ==
    {<<SensorData("sensor_123", 18, 100, "Room 1", 1)>>,
     <<SensorData("sensor_123", 21, 100, "Room 1", 2)>>,
     <<SensorData("sensor_123", 21, 101, "Room 1", 2)>>}

ConcurrentQueryStrings ==
    {[start |-> <<>>, stop |-> <<>>, aggr |-> a, aggFreq |-> <<>>] :
        a \in {<<>>, <<<<"mean">>>>}}

InitConcurrent ==
    /\ store = {}
    /\ h = NewRecordHandler("org", "bucket")
    /\ last = NoRequest
    /\ pkg = Package
    /\ inflight = [s \in Slots |-> NotHandling]
    /\ listening = TRUE
    /\ seeder = NoSeeder

\* PostData up to its store call: bound and validated, the point built
PostDataBound(body, b) ==
    IF b.err
    THEN [NotHandling EXCEPT !.pc = "done", !.op = "PostData", !.body = body,
                             !.d = ErrorJSON(Done({}), 400, "Invalid input")]
    ELSE IF HumidityOutOfRange(b.data)
    THEN [NotHandling EXCEPT !.pc = "done", !.op = "PostData", !.body = body,
                             !.d = ErrorJSON(Done({}), 400,
                                             "Humidity Must be in range [0.0, 100.00]")]
    ELSE [NotHandling EXCEPT !.pc = "call", !.op = "PostData", !.body = body,
                             !.point = <<NewPoint(b.data)>>]

BeginPostData(s) ==
    /\ inflight[s].pc = "idle"
    /\ \E body \in ConcurrentBodies :
          inflight' = [inflight EXCEPT ![s] = PostDataBound(body, ShouldBindJSON(body))]
    /\ UNCHANGED <<store, h, last, pkg, listening, seeder>>

\* a query handler up to its store call: bound, the query text built
QueryBound(op, scope, q, b, query) ==
    IF b.err
    THEN [NotHandling EXCEPT !.pc = "done", !.op = op, !.scope = scope, !.q = <<q>>,
                             !.d = ErrorJSON([Done({}) EXCEPT !.params = <<b.params>>],
                                             400, "Invalid query parameters")]
    ELSE [NotHandling EXCEPT !.pc = "call", !.op = op, !.scope = scope, !.q = <<q>>,
                             !.d = [Done({}) EXCEPT !.params = <<b.params>>,
                                                    !.plan = <<query>>]]

GetAllDataBegun(hh, q, b) == QueryBound("GetAllData", "", q, b, AllDataQuery(hh, b.params))

BeginGetAllData(s) ==
    /\ inflight[s].pc = "idle"
    /\ \E q \in {x \in ConcurrentQueryStrings : x.aggr = <<>>} :
          inflight' = [inflight EXCEPT
                          ![s] = GetAllDataBegun(h, q, ShouldBindQuery(DefaultParams, q))]
    /\ UNCHANGED <<store, h, last, pkg, listening, seeder>>

GetDataFromDeviceByIDBegun(hh, deviceId, q, b) ==
    QueryBound("GetDataFromDeviceByID", deviceId, q, b,
               IF b.params.Aggr = <<>>
               THEN DeviceQuery(hh, b.params, deviceId)
               ELSE buildAggregatedQuery(hh, deviceId, b.params))

BeginGetDataFromDeviceByID(s) ==
    /\ inflight[s].pc = "idle"
    /\ \E q \in ConcurrentQueryStrings :
          inflight' = [inflight EXCEPT
                          ![s] = GetDataFromDeviceByIDBegun(h, "sensor_123", q,
                                                            ShouldBindQuery(DefaultParams, q))]
    /\ UNCHANGED <<store, h, last, pkg, listening, seeder>>

\* writeAPI.WritePoint of PostData
CallWritePoint(s) ==
    /\ inflight[s].pc = "call"
    /\ inflight[s].op = "PostData"
    /\ \E outcome \in WriteOutcomes :
          \E w \in {StorePoint(store, inflight[s].point[1], outcome)} :
              /\ store' = w.store
              /\ inflight' = [inflight EXCEPT ![s].pc = "respond",
                                              ![s].outcome = outcome,
                                              ![s].werr = w.err,
                                              ![s].d.writes = w.attempts]
    /\ UNCHANGED <<h, last, pkg, listening, seeder>>

\* queryAPI.Query of a query handler: the result is held in the handler's
\* local; seen keeps the bucket the call was made on
CallQuery(s) ==
    /\ inflight[s].pc = "call"
    /\ inflight[s].op # "PostData"
    /\ \E outcome \in QueryOutcomes :
          inflight' = [inflight EXCEPT
                          ![s].pc = "respond",
                          ![s].outcome = outcome,
                          ![s].r = <<Query(store, inflight[s].d.plan[1], outcome, 0)>>,
                          ![s].seen = store,
                          ![s].d.queries = inflight[s].d.plan]
    /\ UNCHANGED <<store, h, last, pkg, listening, seeder>>

\* PostData from its store call on
RespondPostData(s) ==
    /\ inflight[s].pc = "respond"
    /\ inflight[s].op = "PostData"
    /\ inflight' = [inflight EXCEPT
                       ![s].pc = "done",
                       ![s].d = IF inflight[s].werr
                                THEN ErrorJSON(@, 500, "Failed to store data")
                                ELSE StoredJSON(@, inflight[s].body[1])]
    /\ UNCHANGED <<store, h, last, pkg, listening, seeder>>

\* as ResultRead, the rows asked of the bucket again when they are read
ResultReadLate(req, st) == Query(st, req.d.plan[1], req.outcome, 0)

\* the result the loop over result.Next() reads: the one the call returned
ResultRead(req, st) == req.r[1]

\* GetAllData from its store call on
RespondGetAllData(s) ==
    /\ inflight[s].pc = "respond"
    /\ inflight[s].op = "GetAllData"
    /\ inflight' = [inflight EXCEPT
                       ![s].pc = "done",
                       ![s].d = RawResponse(@, ResultRead(inflight[s], store))]
    /\ UNCHANGED <<store, h, last, pkg, listening, seeder>>

\* GetDataFromDeviceByID from its store call on
RespondGetDataFromDeviceByID(s) ==
    /\ inflight[s].pc = "respond"
    /\ inflight[s].op = "GetDataFromDeviceByID"
    /\ inflight' = [inflight EXCEPT
                       ![s].pc = "done",
                       ![s].d = DeviceResponse(@, ProcessResult(inflight[s].d.plan[1],
                                                                ResultRead(inflight[s], store)))]
    /\ UNCHANGED <<store, h, last, pkg, listening, seeder>>

\* the handler has returned and its goroutine takes the next request
Finish(s) ==
    /\ inflight[s].pc = "done"
    /\ inflight' = [inflight EXCEPT ![s] = NotHandling]
    /\ UNCHANGED <<store, h, last, pkg, listening, seeder>>

NextConcurrent ==
    \/ \E s \in Slots : BeginPostData(s)
    \/ \E s \in Slots : BeginGetAllData(s)
    \/ \E s \in Slots : BeginGetDataFromDeviceByID(s)
    \/ \E s \in Slots : CallWritePoint(s)
    \/ \E s \in Slots : CallQuery(s)
    \/ \E s \in Slots : RespondPostData(s)
    \/ \E s \in Slots : RespondGetAllData(s)
    \/ \E s \in Slots : RespondGetDataFromDeviceByID(s)
    \/ \E s \in Slots : Finish(s)

SpecConcurrent == InitConcurrent /\ [][NextConcurrent]_vars

----------------------------------------------------------------------------
(* Properties.  They read last, the request just handled.                   *)

IsPost == last.op = "PostData" /\ last.body[1] # <<>>
\* the reading of the PostData request just handled
Reading == last.body[1][1]

IsDeviceQuery == last.op = "GetDataFromDeviceByID" /\ last.params # <<>>
IsQuery == last.op \in {"GetAllData", "GetDataFromDeviceByID", "GetDataFromDeviceByLocation"}
FromPart001 == last.src = "part_001"
FromSwitch == last.src = "docker-compose.yml"

\* the aggr parameter as bound, and its tokens
Aggr == last.params[1].Aggr
Tokens == Split(Aggr)
AllTokensSupported == \A i \in 1..Len(Tokens) : IsInArray(Tokens[i], supportedAggregations)

\* the points the range of the request just handled covers, of its device
InRange ==
    {p \in store : /\ p.device_id = last.scope
                   /\ last.params[1].Start <= p.time
                   /\ p.time < last.params[1].Stop}

\* the store call of the request just handled failed
StoreFailed ==
    /\ last.queries # <<>>
    /\ last.outcome # "ok" \/ ~PlanCompiles(last.queries[1])

\* C1: a reading whose humidity is below 0 or above 100 is answered 400, no
\* write is attempted and the store is what it was before the request.
C1_HumidityOutOfRangeRejected ==
    (IsPost /\ (Reading.humidity < 0 \/ Reading.humidity > 100)) =>
        /\ last.status = 400
        /\ last.writes = <<>>
        /\ store = last.before
        /\ NewPoint(Reading) \in store => NewPoint(Reading) \in last.before

C1_Witness ==
    /\ IsPost
    /\ Reading.humidity = 101 /\ Reading.deviceId = "sensor_123"
    /\ Reading.temperature = 18 /\ Reading.location = "Room 1" /\ Reading.timestampSampled = 1
    /\ last.status = 400
    /\ store # {}

\* C2: a reading with every string and time member present, whatever its
\* temperature, and with humidity in [0, 100], both ends included, is answered
\* 200 unless the store write fails.
C2_InRangeAccepted ==
    (/\ IsPost
     /\ Reading.deviceId # "" /\ Reading.location # "" /\ Reading.timestampSampled # 0
     /\ Reading.humidity >= 0 /\ Reading.humidity <= 100)
    => \/ last.status = 200
       \/ last.status = 500 /\ last.outcome = "err"

\* C3: a device request whose aggr has a token outside {sum, max, mean, min}
\* is turned down before a query is built: no plan exists and nothing is sent
\* to the store.
C3_UnsupportedTokenRejected ==
    (IsDeviceQuery /\ last.scope # "" /\ Aggr # <<>> /\ ~AllTokensSupported) =>
        /\ last.plan = <<>>
        /\ last.queries = <<>>

\* C4: for a non-empty aggr of supported functions only, the keys of every
\* record of the response are timestamp, deviceId, and f_temperature and
\* f_humidity for every requested f, and no other.
C4_AggregatedRecordKeys ==
    (IsDeviceQuery /\ Aggr # <<>> /\ AllTokensSupported /\ last.status = 200) =>
        \A i \in 1..Len(last.data) :
            DOMAIN last.data[i] =
                {<<"timestamp">>, <<"deviceId">>}
                \cup {<<Tokens[j], MetricFields[m]>> :
                        j \in 1..Len(Tokens), m \in 1..Len(MetricFields)}

\* C5: for an empty aggr, every record of the response carries temperature,
\* humidity and location with the values of a stored point of the device, and
\* no key of the form f_metric.
C5_RawRecordFields ==
    (IsDeviceQuery /\ Aggr = <<>> /\ last.status = 200) =>
        \A i \in 1..Len(last.data) :
            /\ \E p \in InRange :
                  /\ Get(last.data[i], <<"temperature">>) = Num(p.temperature)
                  /\ Get(last.data[i], <<"humidity">>) = Num(p.humidity)
                  /\ Get(last.data[i], <<"location">>) = Str(p.location)
            /\ \A key \in DOMAIN last.data[i] :
                  ~(Len(key) = 2 /\ key[2] \in {"temperature", "humidity"})

\* C6: every stored point of the device whose time the range covers is in the
\* response of the raw device request, with its deviceId, temperature,
\* humidity and location.
C6_RoundTrip ==
    (IsDeviceQuery /\ Aggr = <<>> /\ last.status = 200) =>
        \A p \in InRange :
            \E i \in 1..Len(last.data) :
                /\ Get(last.data[i], <<"deviceId">>) = Str(p.device_id)
                /\ Get(last.data[i], <<"temperature">>) = Num(p.temperature)
                /\ Get(last.data[i], <<"humidity">>) = Num(p.humidity)
                /\ Get(last.data[i], <<"location">>) = Str(p.location)

C8_EmptyScopeRejected ==
    /\ (last.op \in {"GetDataFromDeviceByID", "GetDataFromDeviceByLocation"}
        /\ last.scope = "")
       => (last.status = 400 /\ last.queries = <<>>)
    /\ last.status = 400 => (last.writes = <<>> /\ last.queries = <<>>)

\* C9: a query request whose store call fails, at the call or in the stream,
\* is answered 500 with no record, by the handler's own check of the error
\* made before the result is read.
C9_FailedQueryAnswered500 ==
    (IsQuery /\ StoreFailed) =>
        /\ last.status = 500
        /\ last.data = <<>>
        /\ ~last.panicked

\* C10: a request makes at most one write attempt and at most one query call;
\* a PostData whose write attempt fails is answered 500 and leaves the store
\* as it was, without the point.
C10_NoRetry ==
    /\ Len(last.writes) <= 1
    /\ Len(last.queries) <= 1
    /\ (IsPost /\ last.writes # <<>> /\ last.outcome = "err") =>
          /\ last.status = 500
          /\ store = last.before
          /\ NewPoint(Reading) \in store => NewPoint(Reading) \in last.before

C10_Witness ==
    /\ IsPost
    /\ last.outcome = "err"
    /\ Len(last.writes) = 1
    /\ last.status = 500
    /\ store # {}

\* C11: a reading that passes validation causes one write attempt, of a point
\* of sensor_data tagged with the reading's deviceId, whose temperature,
\* humidity and location are the reading's and whose time is the reading's
\* timestampSampled, whatever the times of the points already stored; when the
\* write succeeds the point is in the bucket and every other point of the
\* bucket was there before.
C11_OnePointAsSubmitted ==
    (IsPost /\ last.status # 400) =>
        /\ Len(last.writes) = 1
        /\ last.writes[1].measurement = "sensor_data"
        /\ last.writes[1].device_id = Reading.deviceId
        /\ last.writes[1].temperature = Reading.temperature
        /\ last.writes[1].humidity = Reading.humidity
        /\ last.writes[1].location = Reading.location
        /\ last.writes[1].time = Reading.timestampSampled
        /\ last.outcome = "ok" =>
              /\ last.writes[1] \in store
              /\ store \ {last.writes[1]} \subseteq last.before

\* a reading older than the point the bucket holds is stored next to it
C11_Witness ==
    /\ IsPost
    /\ last.status = 200
    /\ Reading.timestampSampled = 1
    /\ \E p \in last.before : p.device_id = Reading.deviceId /\ p.time = 2
    /\ Cardinality(store) = 2

\* C12: the plan of a device request follows its aggr: without aggr the plan
\* has no stage and pivots the filtered points of the device; with an aggr of
\* N tokens it has the one base filter on the device and the metric fields, N
\* stages, the i-th of them applying the i-th token over windows of aggFreq,
\* and pivots the N tables of these stages, in their order, through a union
\* exactly when N > 1.
C12_StagesFollowRequest ==
    (IsDeviceQuery /\ last.plan # <<>>) =>
        /\ last.plan[1].device = <<last.scope>>
        /\ last.plan[1].location = <<>>
        /\ Aggr = <<>> =>
              /\ last.plan[1].stages = <<>>
              /\ last.plan[1].tables = <<>>
              /\ ~last.plan[1].union
        /\ Aggr # <<>> =>
              /\ last.plan[1].fields = MetricFields
              /\ Len(last.plan[1].stages) = Len(Tokens)
              /\ Len(last.plan[1].tables) = Len(Tokens)
              /\ \A i \in 1..Len(Tokens) :
                    /\ i <= Len(last.plan[1].stages)
                    /\ last.plan[1].stages[i].fn = Tokens[i]
                    /\ last.plan[1].stages[i].every = last.params[1].AggFreq
                    /\ i <= Len(last.plan[1].tables)
                    /\ last.plan[1].tables[i] = last.plan[1].stages[i].out
              /\ last.plan[1].union <=> Len(Tokens) > 1

C12_Witness ==
    /\ IsDeviceQuery
    /\ FromPart001
    /\ Aggr = <<"max", ",", "mean">>
    /\ Len(last.plan[1].stages) = 2
    /\ last.plan[1].stages[1].fn = "max"
    /\ last.plan[1].stages[2].fn = "mean"
    /\ last.plan[1].union
    /\ last.status = 200 /\ last.data # <<>>

\* C13: the stages of a plan built for an aggr of supported functions have
\* pairwise distinct names and pairwise distinct prefixes of their output
\* fields, also when the aggr repeats a function.
C13_DistinctStageNames ==
    (IsDeviceQuery /\ last.plan # <<>> /\ Aggr # <<>> /\ AllTokensSupported) =>
        \A i, j \in 1..Len(last.plan[1].stages) :
            i # j =>
                /\ last.plan[1].stages[i].name # last.plan[1].stages[j].name
                /\ last.plan[1].stages[i].prefix # last.plan[1].stages[j].prefix

\* the output keys of the raw literal and the columns they read
RawKeys ==
    {<<<<"timestampSampled">>, <<"", "time">>>>, <<<<"deviceId">>, <<"device", "id">>>>,
     <<<<"temperature">>, <<"temperature">>>>, <<<<"humidity">>, <<"humidity">>>>,
     <<<<"location">>, <<"location">>>>}

C15_UnsupportedFallsThrough ==
    (IsDeviceQuery /\ last.scope # "" /\ Aggr # <<>> /\ ~AllTokensSupported) =>
        /\ last.status = 0
        /\ last.error = ""
        /\ last.data = <<>>
        /\ ~last.panicked
        /\ last.queries = <<>>

\* a handler has been called and is over
IsInvocation ==
    last.op \in {"PostData", "GetAllData", "GetDataFromDeviceByID",
                 "GetDataFromDeviceByLocation"}

\* C17: every call of a handler returns having written one response, neither
\* none nor two, whatever the binding, the validation, the aggr and the
\* outcome of the store call.
C17_OneResponse ==
    IsInvocation =>
        /\ last.responses = 1
        /\ ~last.panicked

\* C18: the seeder posts the records it generated in their order, each once;
\* it never reads the response of a POST that failed, and after a POST, failed
\* or not, it goes on with the next record until every record is posted.
C18_SeederPostsAll ==
    /\ Len(seeder.posted) <= Len(seeder.data)
    /\ \A i \in 1..Len(seeder.posted) :
          i <= Len(seeder.data) /\ seeder.posted[i] = seeder.data[i]
    /\ seeder.pc # "panicked"
    /\ seeder.pc = "forward" => seeder.idx = Len(seeder.posted) + 1
    /\ seeder.pc = "done" => seeder.posted = seeder.data

\* C16: whatever requests are handled side by side, the handler's org and
\* bucket and the supported aggregations are what they were at the start, and
\* the response of a query handler that has returned is the one the handler
\* gives for its own parameters on the bucket as it was at its store call.
C16_NoSharedMutation ==
    /\ h = NewRecordHandler("org", "bucket")
    /\ pkg = Package
    /\ \A s \in DOMAIN inflight :
          /\ (inflight[s].pc = "done" /\ inflight[s].op = "GetAllData") =>
                /\ inflight[s].d.status =
                      GetAllData(h, inflight[s].seen, inflight[s].q[1],
                                 inflight[s].outcome, 0).status
                /\ inflight[s].d.data =
                      GetAllData(h, inflight[s].seen, inflight[s].q[1],
                                 inflight[s].outcome, 0).data
          /\ (inflight[s].pc = "done" /\ inflight[s].op = "GetDataFromDeviceByID") =>
                /\ inflight[s].d.status =
                      GetDataFromDeviceByID(h, inflight[s].seen, inflight[s].scope,
                                            inflight[s].q[1], inflight[s].outcome, 0).status
                /\ inflight[s].d.data =
                      GetDataFromDeviceByID(h, inflight[s].seen, inflight[s].scope,
                                            inflight[s].q[1], inflight[s].outcome, 0).data

\* a GetAllData that called the empty bucket has answered with no record,
\* after a PostData handled beside it stored a point
C16_Witness ==
    /\ DOMAIN inflight = Slots
    /\ \E s \in Slots :
          /\ inflight[s].pc = "done"
          /\ inflight[s].op = "GetAllData"
          /\ inflight[s].outcome = "ok"
          /\ inflight[s].seen = {}
          /\ inflight[s].d.status = 200
          /\ inflight[s].d.data = <<>>
    /\ \E t \in Slots :
          /\ inflight[t].op = "PostData"
          /\ inflight[t].pc = "respond"
          /\ inflight[t].outcome = "ok"
    /\ store # {}

====
